---- MODULE Spec2Model ----
(***************************************************************************)
(* Model of claude2_api/session.py: one call of get_session_data, with the *)
(* helpers it calls (__get_default_firefox_profile and the two platform    *)
(* scanners, __cleanup_resources, __get_firefox_options,                   *)
(* __get_firefox_webdriver).                                                *)
(*                                                                         *)
(* Strings are sequences of one-character strings, so that startswith,     *)
(* endswith, os.path.join and "; ".join are computed character by          *)
(* character.  A Python value that may be None is a record                 *)
(* [kind, s]: kind "str" with its characters, or kind "None".              *)
(*                                                                         *)
(* The environment: the host platform, the Firefox profile parent          *)
(* directory (present or not, with its listing in os.listdir order), the   *)
(* temp root (its listing in os.listdir order; an entry is a directory or  *)
(* not, and shutil.rmtree on it succeeds or raises), and the driver, whose *)
(* every call may raise and which reports a user agent and cookies.        *)
(* Environment variables read by the code (LOCALAPPDATA, APPDATA) are set, *)
(* and the temp root exists.  driver.quit() ends the browser and returns.  *)
(***************************************************************************)
EXTENDS Integers, Sequences, FiniteSets, TLC

\* ---------------------------------------------------------------- bounds

MaxProfileEntries == 2
MaxTmpEntries == 2
MaxCookies == 2

\* ---------------------------------------------------------------- values

Str(s) == [kind |-> "str", s |-> s]
NoneV == [kind |-> "None", s |-> <<>>]
Unread == [kind |-> "unread", s |-> <<>>]

\* Python truthiness of an optional string: `not v` holds for None and "".
Falsy(v) == v.kind = "None" \/ v.s = <<>>

\* str.startswith / str.endswith
StartsWith(s, p) == Len(p) <= Len(s) /\ SubSeq(s, 1, Len(p)) = p
EndsWith(s, x) == Len(x) <= Len(s) /\ SubSeq(s, Len(s) - Len(x) + 1, Len(s)) = x

Sep(plat) == IF plat = "Windows" THEN <<"\\">> ELSE <<"/">>

\* os.path.join(a, b) for a relative b (a directory entry's name)
OsPathJoin(plat, a, b) ==
    IF a = <<>> \/ EndsWith(a, Sep(plat)) THEN a \o b ELSE a \o Sep(plat) \o b

\* The result of a call: a value, or an exception raised.
Ret(v) == [exc |-> "", val |-> v]
Raise(e) == [exc |-> e, val |-> NoneV]

\* ---------------------------------------------------- the environment

Platforms == {"Windows", "Linux", "Darwin"}

ProfileSuffix == <<".", "d", "e", "f", "a", "u", "l", "t", "-", "r", "e", "l", "e", "a", "s", "e">>

\* Names found in a Firefox profile parent directory.
ProfileNames ==
    { <<"a">> \o ProfileSuffix,
      <<"b">> \o ProfileSuffix,
      <<"c", ".", "d", "e", "f", "a", "u", "l", "t">> }

\* expanduser("~/.mozilla/firefox"), and join(getenv("APPDATA"), "Mozilla\Firefox\Profiles")
LinuxProfileParent ==
    <<"/", "h", "/", ".", "m", "o", "z", "i", "l", "l", "a", "/", "f", "i", "r", "e", "f", "o", "x">>
WinProfileParent ==
    OsPathJoin("Windows", <<"C", ":", "\\", "A">>,
               <<"M", "o", "z", "i", "l", "l", "a", "\\", "F", "i", "r", "e", "f", "o", "x",
                 "\\", "P", "r", "o", "f", "i", "l", "e", "s">>)

\* A profile path the caller may pass.
GivenProfile == <<"/", "p">>

\* Entries of the temp root: [name, isdir, locked]; rmtree raises on a locked one.
Entry(n, d, l) == [name |-> n, isdir |-> d, locked |-> l]
TmpEntries ==
    { Entry(<<"t", "m", "p", "a">>, TRUE, FALSE),
      Entry(<<"t", "m", "p", "b">>, TRUE, TRUE),
      Entry(<<"r", "u", "s", "t", "_", "m", "o", "z", "p", "r", "A">>, TRUE, FALSE),
      Entry(<<"t", "m", "p", "f">>, FALSE, FALSE),
      Entry(<<"x", "t", "m", "p">>, TRUE, FALSE) }

\* What the browser and its driver may leave in the temp root while running.
BrowserEntries ==
    { Entry(<<"r", "u", "s", "t", "_", "m", "o", "z", "p", "r", "o", "f", "i", "l", "e">>, TRUE, l) :
        l \in BOOLEAN }

\* Sequences without repetition, of at most n elements of S (a directory listing).
Listings(S, n) ==
    UNION { { q \in [1..k -> S] : \A i, j \in 1..k : i # j => q[i].name # q[j].name } : k \in 0..n }
NameListings(S, n) ==
    UNION { { q \in [1..k -> S] : \A i, j \in 1..k : i # j => q[i] # q[j] } : k \in 0..n }
SeqsUpTo(S, n) == UNION { [1..k -> S] : k \in 0..n }

UserAgents == { NoneV, Str(<<>>), Str(<<"M", "z", "/", "5">>) }

Cookie(n, v) == [name |-> n, value |-> v]
Cookies ==
    { Cookie(<<"s", "k">>, <<"x", "=", "y">>),
      Cookie(<<"a">>, <<>>),
      Cookie(<<"b">>, <<"1">>) }

\* ------------------------------------------------- profile discovery

\* The loop of both scanners: the first entry of the listing, from index i on,
\* whose name ends with ".default-release", joined to the parent; None if none.
RECURSIVE ScanProfiles(_, _, _, _)
ScanProfiles(plat, parent, listing, i) ==
    IF i > Len(listing) THEN NoneV
    ELSE IF EndsWith(listing[i], ProfileSuffix)
         THEN Str(OsPathJoin(plat, parent, listing[i]))
         ELSE ScanProfiles(plat, parent, listing, i + 1)

\* A scanner that drops the existence check and treats a missing directory as empty.
LinuxDefaultFirefoxProfilePathNoCheck(exists, listing) ==
    Ret(ScanProfiles("Linux", LinuxProfileParent, IF exists THEN listing ELSE <<>>, 1))

\* A scanner that keeps the last matching entry instead of returning at the first.
LinuxDefaultFirefoxProfilePathLast(exists, listing) ==
    IF ~exists THEN Raise("RuntimeError: Unable to retrieve directory")
    ELSE LET m == { i \in 1..Len(listing) : EndsWith(listing[i], ProfileSuffix) }
         IN  IF m = {} THEN Ret(NoneV)
             ELSE Ret(Str(OsPathJoin("Linux", LinuxProfileParent,
                                     listing[CHOOSE i \in m : \A j \in m : j <= i])))

LinuxDefaultFirefoxProfilePath(exists, listing) ==
    IF ~exists THEN Raise("RuntimeError: Unable to retrieve directory")
    ELSE Ret(ScanProfiles("Linux", LinuxProfileParent, listing, 1))

\* os.listdir raises when the directory is missing.
WinDefaultFirefoxProfilePath(exists, listing) ==
    IF ~exists THEN Raise("FileNotFoundError")
    ELSE Ret(ScanProfiles("Windows", WinProfileParent, listing, 1))

GetDefaultFirefoxProfile(plat, exists, listing) ==
    IF plat = "Windows" THEN WinDefaultFirefoxProfilePath(exists, listing)
    ELSE IF plat = "Linux" THEN LinuxDefaultFirefoxProfilePath(exists, listing)
    ELSE Ret(Str(<<>>))

\* --------------------------------------------------------- cleanup

dirPrefixes == << <<"t", "m", "p">>, <<"r", "u", "s", "t", "_", "m", "o", "z", "p", "r">> >>

LinuxTemp == <<"/", "t", "m", "p">>
WinTemp == OsPathJoin("Windows", <<"C", ":", "\\", "L">>, <<"T", "e", "m", "p">>)

\* The state of a cleanup pass: the temp root, the paths handed to rmtree so far
\* (in call order), and whether rmtree has raised.
\* shutil.rmtree(full_path) on entry e: raises on a locked entry, else removes it.
Rmtree(st, full_path, e) ==
    IF e.locked
    THEN [st EXCEPT !.calls = Append(@, full_path), !.raised = TRUE]
    ELSE [st EXCEPT !.calls = Append(@, full_path),
                    !.root = SelectSeq(@, LAMBDA x : x.name # e.name)]

\* A prefix test that looks for the prefix anywhere in the name.
NameMatchesAnywhere(filename, dirPrefix) ==
    \E k \in 0..(Len(filename) - Len(dirPrefix)) :
        SubSeq(filename, k + 1, k + Len(dirPrefix)) = dirPrefix

\* filename.startswith(dirPrefix)
NameMatches(filename, dirPrefix) == StartsWith(filename, dirPrefix)

\* for dirPrefix in [...]: if filename.startswith(dirPrefix): rmtree; break
RECURSIVE PrefixLoop(_, _, _, _)
PrefixLoop(st, folder, e, k) ==
    IF k > Len(dirPrefixes) THEN st
    ELSE IF NameMatches(e.name, dirPrefixes[k]) THEN Rmtree(st, folder, e)
         ELSE PrefixLoop(st, folder, e, k + 1)

\* for filename in os.listdir(folder_path): ...; an exception ends the loop.
RECURSIVE ListingLoop(_, _, _, _, _)
ListingLoop(st, plat, folder, listing, i) ==
    IF i > Len(listing) \/ st.raised THEN st
    ELSE LET e == listing[i]
             full_path == OsPathJoin(plat, folder, e.name)
             st1 == IF e.isdir THEN PrefixLoop(st, full_path, e, 1) ELSE st
         IN  ListingLoop(st1, plat, folder, listing, i + 1)

NoPass(root) == [root |-> root, calls |-> <<>>, raised |-> FALSE, listed |-> FALSE]

\* A cleanup that takes every platform but Windows for Linux.
CleanupResourcesAnyPlatform(plat, root) ==
    ListingLoop([NoPass(root) EXCEPT !.listed = TRUE], plat,
                IF plat = "Windows" THEN WinTemp ELSE LinuxTemp, root, 1)

CleanupResources(plat, root) ==
    IF plat = "Windows"
    THEN ListingLoop([NoPass(root) EXCEPT !.listed = TRUE], plat, WinTemp, root, 1)
    ELSE IF plat = "Linux"
    THEN ListingLoop([NoPass(root) EXCEPT !.listed = TRUE], plat, LinuxTemp, root, 1)
    ELSE NoPass(root)

\* ------------------------------------------------- the cookie header

\* f"{cookie['name']}={cookie['value']}"
FormatCookie(c) == c.name \o <<"=">> \o c.value

RECURSIVE JoinFrom(_, _, _)
JoinFrom(sep, items, i) ==
    IF i > Len(items) THEN <<>>
    ELSE IF i = Len(items) THEN items[i]
    ELSE items[i] \o sep \o JoinFrom(sep, items, i + 1)

\* A join that puts the items in reverse order.
JoinReversed(sep, items) ==
    JoinFrom(sep, [i \in 1..Len(items) |-> items[Len(items) + 1 - i]], 1)

\* sep.join(items)
Join(sep, items) == JoinFrom(sep, items, 1)

CookieString(cookies) ==
    Join(<<";", " ">>, [i \in 1..Len(cookies) |-> FormatCookie(cookies[i])])

\* ------------------------------------------------ get_session_data

VARIABLES
    platform,          \* platform.system()
    profileDirExists,  \* whether the profile parent directory exists
    profileListing,    \* os.listdir of the profile parent directory
    tmpRoot,           \* the entries of the temp root, in os.listdir order
    argProfile,        \* the profile argument of the call
    profile,           \* the local variable profile
    optsProfile,       \* options.profile, once the options are built
    pc,                \* the statement the call is at
    pending,           \* the return value or exception on its way to the caller
    browser,           \* "none", "running" or "quit"
    uaReported,        \* what navigator.userAgent gave, once read
    cookiesReported,   \* what driver.get_cookies() gave, once read
    discovered,        \* the results of the calls of __get_default_firefox_profile
    passes,            \* one record per cleanup pass
    trace              \* the calls made so far, in order

vars == <<platform, profileDirExists, profileListing, tmpRoot, argProfile, profile,
          optsProfile, pc, pending, browser, uaReported, cookiesReported, discovered,
          passes, trace>>

env == <<platform, profileDirExists, profileListing, argProfile>>

NoPending == [kind |-> "none", exc |-> "", cookie |-> <<>>, user_agent |-> NoneV]
Raising(e) == [kind |-> "raise", exc |-> e, cookie |-> <<>>, user_agent |-> NoneV]
\* SessionData(cookie_string, user_agent)
SessionData(c, ua) == [kind |-> "return", exc |-> "", cookie |-> c, user_agent |-> ua]

\* The statements of the try block (lines 147-159).
TryBody == {"get", "implicitly_wait", "execute_script", "get_cookies"}

\* A finally clause that shuts the browser down after the temp root is cleaned.
AfterNormalCleanupFirst(s) ==
    CASE s = "resolve" -> "cleanup"
      [] s = "cleanup" -> "options"
      [] s = "options" -> "webdriver"
      [] s = "webdriver" -> "get"
      [] s = "get" -> "implicitly_wait"
      [] s = "implicitly_wait" -> "execute_script"
      [] s = "execute_script" -> "get_cookies"
      [] s = "get_cookies" -> "finally_cleanup"
      [] s = "finally_cleanup" -> "quit"
      [] s = "quit" -> "done"

\* The statement that follows s when s completes normally (lines 137-162).
AfterNormal(s) ==
    CASE s = "resolve" -> "cleanup"
      [] s = "cleanup" -> "options"
      [] s = "options" -> "webdriver"
      [] s = "webdriver" -> "get"
      [] s = "get" -> "implicitly_wait"
      [] s = "implicitly_wait" -> "execute_script"
      [] s = "execute_script" -> "get_cookies"
      [] s = "get_cookies" -> "quit"
      [] s = "quit" -> "finally_cleanup"
      [] s = "finally_cleanup" -> "done"

\* A call without the finally clause: an exception leaves at once.
AfterRaiseNoFinally(s) == "done"

\* The statement that follows s when s raises: the finally clause for a statement
\* of the try block, the caller otherwise.
AfterRaise(s) == IF s \in TryBody THEN "quit" ELSE "done"

Init ==
    /\ platform \in Platforms
    /\ argProfile \in {Str(<<>>), Str(GivenProfile)}
    /\ profileDirExists \in BOOLEAN
    /\ profileListing \in NameListings(ProfileNames, MaxProfileEntries)
    \* a missing directory has no listing; the listing is read only when no
    \* profile is passed
    /\ (~profileDirExists \/ ~Falsy(argProfile)) => profileListing = <<>>
    /\ tmpRoot \in Listings(TmpEntries, MaxTmpEntries)
    /\ profile = argProfile
    /\ optsProfile = Unread
    /\ pc = "resolve"
    /\ pending = NoPending
    /\ browser = "none"
    /\ uaReported = Unread
    /\ cookiesReported = <<>>
    /\ discovered = <<>>
    /\ passes = <<>>
    /\ trace = <<>>

\* if not profile: profile = __get_default_firefox_profile()        (137-141)
ResolveProfile ==
    /\ pc = "resolve"
    /\ IF Falsy(profile)
       THEN LET r == GetDefaultFirefoxProfile(platform, profileDirExists, profileListing)
            IN  /\ discovered' = Append(discovered, r)
                /\ IF r.exc # ""
                   THEN /\ pending' = Raising(r.exc)
                        /\ pc' = AfterRaise("resolve")
                        /\ UNCHANGED profile
                   ELSE /\ profile' = r.val
                        /\ pc' = AfterNormal("resolve")
                        /\ UNCHANGED pending
       ELSE /\ pc' = AfterNormal("resolve")
            /\ UNCHANGED <<profile, pending, discovered>>
    /\ UNCHANGED <<env, tmpRoot, optsProfile, browser, uaReported, cookiesReported,
                   passes, trace>>

PassRecord(before, r) ==
    [before |-> before, listed |-> r.listed, calls |-> r.calls, raised |-> r.raised,
     after |-> r.root]

\* __cleanup_resources() at `at`: line 143, or line 162 in the finally clause,
\* where an exception it raises replaces the one on its way.
CleanupAt(at) ==
    /\ pc = at
    /\ LET r == CleanupResources(platform, tmpRoot)
       IN  /\ tmpRoot' = r.root
           /\ passes' = Append(passes, PassRecord(tmpRoot, r))
           /\ IF r.raised
              THEN /\ trace' = Append(trace, "cleanup_begin")
                   /\ pending' = Raising("OSError")
                   /\ pc' = AfterRaise(at)
              ELSE /\ trace' = trace \o <<"cleanup_begin", "cleanup_end">>
                   /\ pc' = AfterNormal(at)
                   /\ UNCHANGED pending
    /\ UNCHANGED <<env, profile, optsProfile, browser, uaReported, cookiesReported,
                   discovered>>

CleanupBefore == CleanupAt("cleanup")
CleanupAfter == CleanupAt("finally_cleanup")

\* opts = __get_firefox_options(firefox_profile=profile, headless=True)   (144, 29-56)
BuildOptions ==
    /\ pc = "options"
    /\ LET r == IF Falsy(profile)
                THEN GetDefaultFirefoxProfile(platform, profileDirExists, profileListing)
                ELSE Ret(profile)
       IN  /\ discovered' = IF Falsy(profile) THEN Append(discovered, r) ELSE discovered
           /\ IF r.exc # ""
              THEN /\ pending' = Raising(r.exc)
                   /\ pc' = AfterRaise("options")
                   /\ UNCHANGED optsProfile
              ELSE \* screeninfo.get_monitors()[0] gives a monitor, or raises
                   \/ /\ optsProfile' = r.val
                      /\ pc' = AfterNormal("options")
                      /\ UNCHANGED pending
                   \/ /\ pending' = Raising("ScreenInfoError")
                      /\ pc' = AfterRaise("options")
                      /\ UNCHANGED optsProfile
    /\ UNCHANGED <<env, tmpRoot, profile, browser, uaReported, cookiesReported,
                   passes, trace>>

\* driver = __get_firefox_webdriver(options=opts)                    (145, 59-77)
GetFirefoxWebdriver ==
    /\ pc = "webdriver"
    /\ trace' = Append(trace, "webdriver")
    /\ \/ /\ browser' = "running"
          /\ pc' = AfterNormal("webdriver")
          \* the browser and its driver may leave a directory in the temp root
          /\ \/ UNCHANGED tmpRoot
             \/ \E e \in BrowserEntries :
                    /\ \A i \in 1..Len(tmpRoot) : tmpRoot[i].name # e.name
                    /\ tmpRoot' = Append(tmpRoot, e)
          /\ UNCHANGED pending
       \/ /\ pending' = Raising("WebDriverException")
          /\ pc' = AfterRaise("webdriver")
          /\ UNCHANGED <<browser, tmpRoot>>
    /\ UNCHANGED <<env, profile, optsProfile, uaReported, cookiesReported, discovered,
                   passes>>

\* A driver call of the try block that returns nothing the call keeps: it
\* completes, or raises.
DriverCall(s) ==
    /\ pc = s
    /\ browser = "running"
    /\ trace' = Append(trace, s)
    /\ \/ /\ pc' = AfterNormal(s)
          /\ UNCHANGED pending
       \/ /\ pending' = Raising("WebDriverException")
          /\ pc' = AfterRaise(s)
    /\ UNCHANGED <<env, tmpRoot, profile, optsProfile, browser, uaReported,
                   cookiesReported, discovered, passes>>

\* driver.get(__BASE_CHAT_URL)                                              (147)
Navigate == DriverCall("get")

\* driver.implicitly_wait(3)                                                (149)
ImplicitlyWait == DriverCall("implicitly_wait")

\* user_agent = driver.execute_script(...); if not user_agent: raise    (150-152)
ReadUserAgent ==
    /\ pc = "execute_script"
    /\ browser = "running"
    /\ trace' = Append(trace, "execute_script")
    /\ \/ \E ua \in UserAgents :
            /\ uaReported' = ua
            /\ IF Falsy(ua)
               THEN /\ pending' = Raising("RuntimeError: Cannot retrieve UserAgent...")
                    /\ pc' = AfterRaise("execute_script")
               ELSE /\ pc' = AfterNormal("execute_script")
                    /\ UNCHANGED pending
       \/ /\ pending' = Raising("WebDriverException")
          /\ pc' = AfterRaise("execute_script")
          /\ UNCHANGED uaReported
    /\ UNCHANGED <<env, tmpRoot, profile, optsProfile, browser, cookiesReported,
                   discovered, passes>>

\* cookies = driver.get_cookies(); return SessionData("; ".join(...), user_agent)
\*                                                                      (154-159)
ReadCookies ==
    /\ pc = "get_cookies"
    /\ browser = "running"
    /\ trace' = Append(trace, "get_cookies")
    /\ \/ \E cookies \in SeqsUpTo(Cookies, MaxCookies) :
            /\ cookiesReported' = cookies
            /\ pending' = SessionData(CookieString(cookies), uaReported.s)
            /\ pc' = AfterNormal("get_cookies")
       \/ /\ pending' = Raising("WebDriverException")
          /\ pc' = AfterRaise("get_cookies")
          /\ UNCHANGED cookiesReported
    /\ UNCHANGED <<env, tmpRoot, profile, optsProfile, browser, uaReported,
                   discovered, passes>>

\* finally: driver.quit()                                                   (161)
Quit ==
    /\ pc = "quit"
    /\ browser' = "quit"
    /\ trace' = Append(trace, "quit")
    /\ pc' = AfterNormal("quit")
    /\ UNCHANGED <<env, tmpRoot, profile, optsProfile, pending, uaReported,
                   cookiesReported, discovered, passes>>

Next ==
    \/ ResolveProfile
    \/ CleanupBefore
    \/ BuildOptions
    \/ GetFirefoxWebdriver
    \/ Navigate
    \/ ImplicitlyWait
    \/ ReadUserAgent
    \/ ReadCookies
    \/ Quit
    \/ CleanupAfter

Spec == Init /\ [][Next]_vars

\* What the caller has: nothing while the call runs, then the value returned
\* or the exception raised.
Outcome == IF pc = "done" THEN pending ELSE NoPending

\* The browser process has been spawned.
Launched == browser # "none"

Supported == {"Windows", "Linux"}

\* --------------------------------------------------------------- claims

\* C1: once the browser has been spawned it is shut down on every exit path of
\* get_session_data: whenever the call has returned or raised to its caller,
\* the browser is not running.
C1_BrowserQuitOnEveryExit ==
    (pc = "done" /\ Launched) => browser = "quit"

C1_Witness ==
    /\ pc = "done"
    /\ browser = "quit"
    /\ pending = Raising("WebDriverException")

\* C2 (as stated): when the browser reports an empty or missing user agent, the
\* caller gets the empty-user-agent error, no cookies are read, and the browser
\* is shut down.
C2_EmptyUserAgentError ==
    (pc = "done" /\ uaReported # Unread /\ Falsy(uaReported)) =>
        /\ pending = Raising("RuntimeError: Cannot retrieve UserAgent...")
        /\ \A i \in 1..Len(trace) : trace[i] # "get_cookies"
        /\ browser = "quit"

\* The characters of the header up to, not including, cookie i.
RECURSIVE CookieOffset(_, _)
CookieOffset(cookies, i) ==
    IF i <= 1 THEN 0
    ELSE CookieOffset(cookies, i - 1)
         + Len(cookies[i - 1].name) + 1 + Len(cookies[i - 1].value) + 2

\* s holds, at its place, name=value of each cookie in the order given, a
\* semicolon and a space between two of them, and nothing else.
IsCookieHeader(s, cookies) ==
    LET n == Len(cookies)
    IN  /\ Len(s) = IF n = 0 THEN 0 ELSE CookieOffset(cookies, n + 1) - 2
        /\ \A i \in 1..n :
             LET o == CookieOffset(cookies, i)
                 ln == Len(cookies[i].name)
                 lv == Len(cookies[i].value)
             IN  /\ \A k \in 1..ln : s[o + k] = cookies[i].name[k]
                 /\ s[o + ln + 1] = "="
                 /\ \A k \in 1..lv : s[o + ln + 1 + k] = cookies[i].value[k]
                 /\ i < n => (s[o + ln + lv + 2] = ";" /\ s[o + ln + lv + 3] = " ")

\* C3: a SessionData returned holds the cookies the driver reported, each as
\* name=value, in the driver's order, joined by "; ", and the user agent the
\* browser reported.
C3_CookieStringInDriverOrder ==
    (pc = "done" /\ pending.kind = "return") =>
        /\ IsCookieHeader(pending.cookie, cookiesReported)
        /\ uaReported.kind = "str"
        /\ pending.user_agent = uaReported.s

C3_Witness ==
    /\ pc = "done"
    /\ pending.kind = "return"
    /\ Len(cookiesReported) = 2
    /\ cookiesReported[1] # cookiesReported[2]

\* name ends with the literal suffix, character by character.
HasSuffix(name, x) ==
    /\ Len(name) >= Len(x)
    /\ \A k \in 1..Len(x) : name[Len(name) - Len(x) + k] = x[k]

NoProfileEntry == \A i \in 1..Len(profileListing) : ~HasSuffix(profileListing[i], ProfileSuffix)

\* C4 (as stated): with no profile passed and discovery failing on a supported
\* platform (directory missing, or no entry ending in .default-release), the call
\* fails before it builds the options or launches a browser.
C4_DiscoveryFailureStopsRetrieval ==
    (/\ pc # "resolve"
     /\ Falsy(argProfile)
     /\ platform \in Supported
     /\ (~profileDirExists \/ NoProfileEntry)) =>
        /\ pc = "done"
        /\ pending.kind = "raise"
        /\ optsProfile = Unread
        /\ ~Launched

\* name starts with one of the configured prefixes, character by character.
HasCleanupPrefix(name) ==
    \E p \in { <<"t", "m", "p">>, <<"r", "u", "s", "t", "_", "m", "o", "z", "p", "r">> } :
        /\ Len(name) >= Len(p)
        /\ \A k \in 1..Len(p) : name[k] = p[k]

InListing(e, listing) == \E i \in 1..Len(listing) : listing[i] = e

\* C5 (as stated): a failing removal is swallowed: the pass still removes every
\* other matching directory, and no cleanup error reaches the caller.
C5_CleanupFailureSwallowed ==
    /\ pc = "done" => pending.exc # "OSError"
    /\ \A i \in 1..Len(passes) : \A j \in 1..Len(passes[i].before) :
         LET e == passes[i].before[j]
         IN  (passes[i].listed /\ e.isdir /\ HasCleanupPrefix(e.name) /\ ~e.locked)
                 => ~InListing(e, passes[i].after)

\* C6 (as stated): discovery returns absent, without raising, when the profile
\* parent directory does not exist.
C6_MissingDirectoryGivesAbsent ==
    (platform \in Supported /\ ~profileDirExists) =>
        \A i \in 1..Len(discovered) : discovered[i] = Ret(NoneV)

MissingDirectoryError ==
    IF platform = "Linux" THEN "RuntimeError: Unable to retrieve directory"
    ELSE "FileNotFoundError"

\* C6 (amended): when the profile parent directory does not exist, discovery
\* raises (RuntimeError on Linux, the listing's FileNotFoundError on Windows);
\* get_session_data runs discovery only when no profile was passed, and then
\* fails with that error before any cleanup or browser launch.
C6_MissingDirectoryRaises ==
    (platform \in Supported /\ ~profileDirExists) =>
        /\ \A i \in 1..Len(discovered) : discovered[i] = Raise(MissingDirectoryError)
        /\ ~Falsy(argProfile) => discovered = <<>>
        /\ (Falsy(argProfile) /\ pc # "resolve") =>
              /\ pc = "done"
              /\ pending = Raising(MissingDirectoryError)
              /\ passes = <<>>
              /\ ~Launched

C6_Witness ==
    /\ platform = "Linux"
    /\ ~profileDirExists
    /\ pc = "done"
    /\ discovered = <<Raise("RuntimeError: Unable to retrieve directory")>>

ProfileParent == IF platform = "Windows" THEN WinProfileParent ELSE LinuxProfileParent

\* C7: on a listing of the profile parent directory, discovery returns the
\* parent joined with the first listed name that ends with .default-release,
\* and None exactly when no listed name does.
C7_FirstDefaultRelease ==
    (platform \in Supported /\ profileDirExists) =>
        \A i \in 1..Len(discovered) :
            /\ discovered[i].exc = ""
            /\ LET m == { k \in 1..Len(profileListing) :
                            HasSuffix(profileListing[k], ProfileSuffix) }
               IN  IF m = {}
                   THEN discovered[i].val = NoneV
                   ELSE LET first == CHOOSE k \in m : \A j \in m : k <= j
                        IN  discovered[i].val =
                              Str(ProfileParent \o Sep(platform) \o profileListing[first])

C7_Witness ==
    /\ platform = "Linux"
    /\ profileDirExists
    /\ discovered # <<>>
    /\ Len(profileListing) = 2
    /\ ~HasSuffix(profileListing[1], ProfileSuffix)
    /\ HasSuffix(profileListing[2], ProfileSuffix)
    /\ discovered[1].val.kind = "str"

TempRoot == IF platform = "Windows" THEN WinTemp ELSE LinuxTemp

\* C8: a cleanup pass hands to rmtree only directories of the temp root whose
\* name starts with tmp or rust_mozpr, each at most once; every other entry is
\* still there after the pass, and the pass adds nothing.
C8_CleanupOnlyPrefixedDirectories ==
    \A i \in 1..Len(passes) :
        LET p == passes[i]
        IN  /\ \A c \in 1..Len(p.calls) :
                 \E j \in 1..Len(p.before) :
                    /\ p.calls[c] = TempRoot \o Sep(platform) \o p.before[j].name
                    /\ p.before[j].isdir
                    /\ HasCleanupPrefix(p.before[j].name)
            /\ \A c, d \in 1..Len(p.calls) : c # d => p.calls[c] # p.calls[d]
            /\ \A j \in 1..Len(p.before) :
                 (~p.before[j].isdir \/ ~HasCleanupPrefix(p.before[j].name))
                     => InListing(p.before[j], p.after)
            /\ \A j \in 1..Len(p.after) : InListing(p.after[j], p.before)

C8_Witness ==
    \E i \in 1..Len(passes) :
        /\ Len(passes[i].calls) = 1
        /\ Len(passes[i].before) = 2
        /\ Len(passes[i].after) = 1
        /\ passes[i].after[1].isdir
        /\ ~HasCleanupPrefix(passes[i].after[1].name)

\* C9: on a platform other than Windows and Linux, discovery returns the empty
\* "no default" value, a cleanup pass lists and removes nothing, and neither
\* raises.
C9_UnsupportedPlatformNoOp ==
    platform \notin Supported =>
        /\ \A i \in 1..Len(discovered) : discovered[i] = Ret(Str(<<>>))
        /\ \A i \in 1..Len(passes) :
             /\ ~passes[i].listed
             /\ passes[i].calls = <<>>
             /\ ~passes[i].raised
             /\ passes[i].after = passes[i].before
        /\ pending.exc \notin {"OSError", "FileNotFoundError",
                               "RuntimeError: Unable to retrieve directory"}

C9_Witness ==
    /\ platform \notin Supported
    /\ Len(discovered) = 2
    /\ Len(passes) = 2
    /\ \E j \in 1..Len(passes[2].before) :
          /\ passes[2].before[j].isdir
          /\ HasCleanupPrefix(passes[2].before[j].name)

Before(a, b) ==
    \A i \in 1..Len(trace) : trace[i] = b => \E j \in 1..(i - 1) : trace[j] = a

\* C10: within one call, a cleanup pass completes before the browser is
\* launched; the launch is attempted at most once; navigation precedes reading
\* the user agent, which precedes reading the cookies; a cleanup pass after the
\* launch begins only after the browser was shut down, and after a launch the
\* call does not end without one.
C10_CallOrder ==
    /\ Before("cleanup_end", "webdriver")
    /\ Cardinality({ i \in 1..Len(trace) : trace[i] = "webdriver" }) <= 1
    /\ Before("get", "execute_script")
    /\ Before("execute_script", "get_cookies")
    /\ \A i, j \in 1..Len(trace) :
         (i < j /\ trace[i] = "webdriver" /\ trace[j] = "cleanup_begin")
             => \E k \in (i + 1)..(j - 1) : trace[k] = "quit"
    /\ (pc = "done" /\ Launched) =>
         \E i, j \in 1..Len(trace) : i < j /\ trace[i] = "quit" /\ trace[j] = "cleanup_begin"

C10_Witness ==
    /\ pc = "done"
    /\ trace = <<"cleanup_begin", "cleanup_end", "webdriver", "get", "implicitly_wait",
                 "execute_script", "get_cookies", "quit", "cleanup_begin", "cleanup_end">>

====
